---- MODULE Spec2Model ----
(***************************************************************************)
(* Model of local-argocd-renderer.                                         *)
(*                                                                         *)
(* Two programs live in the repository:                                    *)
(*   - the lightweight renderer (package internal): ExecuteCommand         *)
(*     validates a request, detects the source type with GetAppSourceType  *)
(*     and hands the source to the Helm, Kustomize or Directory strategy;  *)
(*   - the library renderer (package renderer): TemplateFromApplication    *)
(*     collects the manifests of every source, parses them and passes the  *)
(*     parsed objects to the deduplication step.                           *)
(* SpecDispatch is the first program, SpecTemplate the second.             *)
(* SpecStrategy is one run of a strategy of the first program, or of       *)
(* downloadHelmChart of the second, with the external process it starts.   *)
(* SpecDownload is two concurrent downloadHelmChart calls on one cache.    *)
(* SpecCli is main of cmd/local-argocd-renderer.                           *)
(*                                                                         *)
(* Paths are sequences of path components; the empty sequence is the empty *)
(* string "" and <<".">> is ".".                                           *)
(***************************************************************************)
EXTENDS Naturals, Integers, Sequences, FiniteSets, TLC

VARIABLES
    fs,            \* the repository on disk: directory -> set of file names
    req,           \* the RenderRequest handed to ExecuteCommand
    pc,            \* position of ExecuteCommand
    call,          \* arguments of the GetAppSourceType invocation
    sourceType,    \* the type GetAppSourceType returned
    statCalls,     \* the <<directory, file>> pairs os.Stat was asked about
    renderCtx,     \* the RenderContext built by buildRenderContext
    invoked,       \* the strategy executeByType invoked
    renderDir,     \* the directories the invoked strategy renders
    err,           \* the error ExecuteCommand returned
    detectErr,     \* the error GetAppSourceType returned
    tpc,           \* position of TemplateFromApplication
    requests,      \* the manifest requests, one for each declared source
    repoRoot,      \* TemplateOptions.RepoRoot
    sourceIndex,   \* the loop variable of the loop over the requests
    generated,     \* the arguments of the GenerateManifests calls that succeeded
    tempDirs,      \* the overlay directories that exist on disk
    created,       \* every directory the render created on disk
    terr,          \* the error TemplateFromApplication returned
    sourcesProcessed, \* TemplateResult.SourcesProcessed
    destNs,        \* requests[0].Namespace, the destination namespace
    allManifests,  \* the raw manifests collected from the sources
    targetObjects, \* the manifests that parsed
    warnings,      \* TemplateResult.Warnings
    objects,       \* TemplateResult.Objects
    spc,           \* position of the strategy (or of downloadHelmChart)
    sreq,          \* what the strategy is asked to render
    fileIdx,       \* the number of directory entries filepath.Walk has visited
    first,         \* the flag "first" of walkAndOutputFiles
    stdout,        \* what has been written to the manifest output stream
    stemp,         \* the temporary files and directories that exist on disk
    cleanup,       \* the temporary paths a deferred cleanup will remove
    proc,          \* the external process in flight
    cancelled,     \* the invoking context is cancelled
    procEnd,       \* how the last external process ended
    serr,          \* the error the strategy returned
    kustomization, \* the kustomization.yaml createKustomizationOverlay wrote
    dreq,          \* the chart each concurrent downloadHelmChart call asks for
    dpc,           \* position of each downloadHelmChart call
    dres,          \* what each downloadHelmChart call returned
    chartCache,    \* the chart-<hash> directories of the cache and what they hold
    extracted,     \* the directories helm pull --untar has left in the cache
    cpc,           \* position of main of cmd/local-argocd-renderer
    cliApp,        \* the --app flag is given
    cliResult,     \* what TemplateFromApplication returns to main
    objIdx,        \* the number of objects main has printed
    exitCode,      \* the exit status of the process
    cliStderr,     \* what main wrote to os.Stderr
    cliStdout      \* what main wrote to os.Stdout

dispatchVars == <<fs, req, pc, call, sourceType, statCalls, renderCtx, invoked, renderDir, err, detectErr>>
templateVars ==
    <<tpc, requests, repoRoot, sourceIndex, generated, tempDirs, created, terr,
      sourcesProcessed, destNs, allManifests, targetObjects, warnings, objects>>
strategyVars ==
    <<spc, sreq, fileIdx, first, stdout, stemp, cleanup, proc, cancelled, procEnd, serr,
      kustomization>>
downloadVars == <<dreq, dpc, dres, chartCache, extracted>>
cliVars == <<cpc, cliApp, cliResult, objIdx, exitCode, cliStderr, cliStdout>>
vars == <<dispatchVars, templateVars, strategyVars, downloadVars, cliVars>>

(***************************************************************************)
(* Bounds                                                                  *)
(***************************************************************************)
MaxPathLen == 2
MaxManifests == 3
MaxSources == 2
MaxFiles == 3
MaxValueFiles == 2

\* the longest build option string, in characters
MaxBuildOptionsLen == 3

\* the most image overrides, and the most replica overrides, of a source
MaxOverrides == 1

None == "none"

\* a nil pointer to a struct
Nil == [nil |-> TRUE]

(***************************************************************************)
(* Paths                                                                   *)
(***************************************************************************)
Last(s) == s[Len(s)]
Front(s) == SubSeq(s, 1, Len(s) - 1)

RECURSIVE CleanAcc(_, _)
CleanAcc(p, acc) ==
    IF p = <<>> THEN acc
    ELSE LET c == Head(p) IN
         IF c = "." THEN CleanAcc(Tail(p), acc)
         ELSE IF c = ".."
              THEN IF acc # <<>> /\ Last(acc) # ".."
                   THEN CleanAcc(Tail(p), Front(acc))
                   ELSE CleanAcc(Tail(p), Append(acc, ".."))
              ELSE CleanAcc(Tail(p), Append(acc, c))

\* filepath.Clean on a relative path: "." components vanish, "x/.." cancels,
\* and the empty result is ".".
Clean(p) ==
    LET r == CleanAcc(p, <<>>) IN IF r = <<>> THEN <<".">> ELSE r

\* filepath.Join / path.Join: empty elements are ignored, the rest is cleaned;
\* joining nothing but empty elements gives "".
Join(a, b) ==
    IF a = <<>> /\ b = <<>> THEN <<>> ELSE Clean(a \o b)

\* os.Stat(filepath.Join(path, file)) succeeded
Stat(path, file) ==
    /\ Clean(path) \in DOMAIN fs
    /\ file \in fs[Clean(path)]

(***************************************************************************)
(* Source type detection                                                   *)
(***************************************************************************)
ApplicationSourceTypeHelm == "Helm"
ApplicationSourceTypeKustomize == "Kustomize"
ApplicationSourceTypeDirectory == "Directory"

kustomizeFiles == <<"kustomization.yaml", "kustomization.yml", "Kustomization">>

isHelmChart(path) ==
    Stat(path, "Chart.yaml") \/ Stat(path, "Chart.yml")

\* the files isHelmChart asks os.Stat about, stopping at the first hit
isHelmChartStats(path) ==
    IF Stat(path, "Chart.yaml")
    THEN {<<Clean(path), "Chart.yaml">>}
    ELSE {<<Clean(path), "Chart.yaml">>, <<Clean(path), "Chart.yml">>}

\* a detector that forgets the capitalised descriptor name
isKustomizeApp_LowerCaseOnly(path) ==
    \E i \in 1..2 : Stat(path, kustomizeFiles[i])

isKustomizeApp(path) ==
    \E i \in 1..Len(kustomizeFiles) : Stat(path, kustomizeFiles[i])

\* the files isKustomizeApp asks os.Stat about, stopping at the first hit
isKustomizeAppStats(path) ==
    {<<Clean(path), kustomizeFiles[i]>> :
        i \in {j \in 1..Len(kustomizeFiles) :
                 \A k \in 1..(j - 1) : ~Stat(path, kustomizeFiles[k])}}

\* a detector that looks for the kustomization descriptor first
detectSourceTypeFromDirectory_KustomizeFirst(path) ==
    IF isKustomizeApp(path) THEN ApplicationSourceTypeKustomize
    ELSE IF isHelmChart(path) THEN ApplicationSourceTypeHelm
    ELSE ApplicationSourceTypeDirectory

detectSourceTypeFromDirectory(path) ==
    IF isHelmChart(path) THEN ApplicationSourceTypeHelm
    ELSE IF isKustomizeApp(path) THEN ApplicationSourceTypeKustomize
    ELSE ApplicationSourceTypeDirectory

detectStats(path) ==
    IF isHelmChart(path) THEN isHelmChartStats(path)
    ELSE isHelmChartStats(path) \cup isKustomizeAppStats(path)

\* the directory GetAppSourceType inspects when no bundle is set
searchPathOf(appPath, repoPath) ==
    IF appPath = <<>> \/ appPath = repoPath
    THEN repoPath
    ELSE Join(repoPath, appPath)

\* a detector that tests the Kustomize bundle before the Helm bundle
GetAppSourceType_KustomizeFirst(source, appPath, repoPath) ==
    IF source.Kustomize THEN ApplicationSourceTypeKustomize
    ELSE IF source.Helm THEN ApplicationSourceTypeHelm
    ELSE IF source.Directory THEN ApplicationSourceTypeDirectory
    ELSE detectSourceTypeFromDirectory(searchPathOf(appPath, repoPath))

GetAppSourceType(source, appPath, repoPath) ==
    IF source.Helm THEN ApplicationSourceTypeHelm
    ELSE IF source.Kustomize THEN ApplicationSourceTypeKustomize
    ELSE IF source.Directory THEN ApplicationSourceTypeDirectory
    ELSE detectSourceTypeFromDirectory(searchPathOf(appPath, repoPath))

\* the error GetAppSourceType returns: every return statement of it and of
\* detectSourceTypeFromDirectory returns a nil error, a failed os.Stat counts
\* as "file absent"
GetAppSourceTypeErr(source, appPath, repoPath) == None

GetAppSourceTypeStats(source, appPath, repoPath) ==
    IF source.Helm \/ source.Kustomize \/ source.Directory
    THEN {}
    ELSE detectStats(searchPathOf(appPath, repoPath))

(***************************************************************************)
(* Strategies: the directory each one renders                              *)
(***************************************************************************)
\* helmRenderer.getChartPath
getChartPath(ctx) ==
    IF ctx.Source.Path = <<>> THEN <<".">> ELSE ctx.Source.Path

\* helm runs with cmd.Dir = RepoPath, so the relative chart path names this
\* directory
helmRenderDir(ctx) == Join(ctx.RepoPath, getChartPath(ctx))

\* kustomizeRenderer.getKustomizePath
getKustomizePath(ctx) ==
    IF ctx.Source.Path # <<>>
    THEN Join(ctx.RepoPath, ctx.Source.Path)
    ELSE ctx.RepoPath

\* directoryRenderer.getSearchPath
getSearchPath(ctx) ==
    IF ctx.Source.Path # <<>>
    THEN Join(ctx.RepoPath, ctx.Source.Path)
    ELSE ctx.RepoPath

(***************************************************************************)
(* Inputs of the dispatcher                                                *)
(***************************************************************************)
PathComponents == {"apps", ".."}

\* Source.Path values: relative paths of at most MaxPathLen components
PathInputs == UNION {[1..n -> PathComponents] : n \in 0..MaxPathLen}

RepoPaths == {<<>>, <<".">>, <<"apps">>}

Dirs == {<<".">>, <<"apps">>, <<"apps", "apps">>}

FileSets ==
    { {},
      {"deployment.yaml"},
      {"Chart.yaml", "kustomization.yaml"},
      {"Chart.yml"},
      {"kustomization.yml"},
      {"Kustomization", "deployment.yaml"} }

\* a source: its path and which option bundles are non-nil
Sources ==
    [Path : PathInputs, Helm : BOOLEAN, Kustomize : BOOLEAN, Directory : BOOLEAN,
     Plugin : {FALSE}]
    \cup
    [Path : {<<>>}, Helm : BOOLEAN, Kustomize : BOOLEAN, Directory : BOOLEAN,
     Plugin : {TRUE}]

\* the sources of a multi-source Application (spec.sources)
ListedSources ==
    [Path : {<<>>}, Helm : BOOLEAN, Kustomize : {FALSE}, Directory : BOOLEAN,
     Plugin : {FALSE}]

MultiSources == {<<s1, s2>> : s1 \in ListedSources, s2 \in ListedSources}

Applications ==
    [Source : {Nil} \cup Sources, Sources : {<<>>}]
    \cup [Source : {Nil}, Sources : MultiSources]

Requests ==
    [Application : {Nil}, RepoPath : RepoPaths]
    \cup [Application : Applications, RepoPath : RepoPaths]

TemplateIdle ==
    /\ tpc = "idle"
    /\ requests = <<>>
    /\ repoRoot = <<>>
    /\ sourceIndex = 0
    /\ generated = <<>>
    /\ tempDirs = {}
    /\ created = {}
    /\ terr = Nil
    /\ sourcesProcessed = 0
    /\ destNs = ""
    /\ allManifests = <<>>
    /\ targetObjects = <<>>
    /\ warnings = <<>>
    /\ objects = <<>>

StrategyIdle ==
    /\ spc = "idle"
    /\ sreq = Nil
    /\ fileIdx = 0
    /\ first = TRUE
    /\ stdout = <<>>
    /\ stemp = {}
    /\ cleanup = {}
    /\ proc = Nil
    /\ cancelled = FALSE
    /\ procEnd = None
    /\ serr = None
    /\ kustomization = Nil

DownloadIdle ==
    /\ dreq = <<>>
    /\ dpc = <<>>
    /\ dres = <<>>
    /\ chartCache = {}
    /\ extracted = {}

CliIdle ==
    /\ cpc = "idle"
    /\ cliApp = FALSE
    /\ cliResult = Nil
    /\ objIdx = 0
    /\ exitCode = 0
    /\ cliStderr = <<>>
    /\ cliStdout = <<>>

InitDispatch ==
    /\ fs \in [Dirs -> FileSets]
    /\ req \in Requests
    /\ pc = "start"
    /\ call = Nil
    /\ sourceType = None
    /\ statCalls = {}
    /\ renderCtx = Nil
    /\ invoked = None
    /\ renderDir = {}
    /\ err = None
    /\ detectErr = None
    /\ TemplateIdle
    /\ StrategyIdle
    /\ DownloadIdle
    /\ CliIdle

(***************************************************************************)
(* renderer.ExecuteCommand                                                 *)
(***************************************************************************)
\* a validation that forgets the repository path
validateRequest_NoRepoPathCheck(r) ==
    IF r.Application = Nil THEN "application is required" ELSE None

\* renderer.validateRequest: the error it returns
validateRequest(r) ==
    IF r.Application = Nil THEN "application is required"
    ELSE IF r.RepoPath = <<>> THEN "repoPath is required"
    ELSE None

\* validateRequest, getSource and the nil check on the source
ValidateRequest ==
    /\ pc = "start"
    /\ IF validateRequest(req) # None
       THEN /\ err' = validateRequest(req)
            /\ pc' = "failed"
       ELSE IF req.Application.Source = Nil
       THEN /\ err' = "no source found in application"
            /\ pc' = "failed"
       ELSE /\ err' = err
            /\ pc' = "validated"
    /\ UNCHANGED <<fs, req, call, sourceType, statCalls, renderCtx, invoked, renderDir, detectErr>>
    /\ UNCHANGED <<templateVars, strategyVars, downloadVars, cliVars>>

\* appPath as ExecuteCommand computes it
dispatchAppPath(r) ==
    IF r.Application.Source.Path # <<>>
    THEN r.Application.Source.Path
    ELSE r.RepoPath

\* a context builder that drops the resolved type for the default
buildRenderContext_DefaultType(r, source, type) ==
    [Source |-> source, RepoPath |-> r.RepoPath,
     SourceType |-> ApplicationSourceTypeDirectory]

buildRenderContext(r, source, type) ==
    [Source |-> source, RepoPath |-> r.RepoPath, SourceType |-> type]

\* the call of GetAppSourceType and buildRenderContext
DetectSourceType ==
    /\ pc = "validated"
    /\ LET source == req.Application.Source
           appPath == dispatchAppPath(req)
           type == GetAppSourceType(source, appPath, req.RepoPath)
           e == GetAppSourceTypeErr(source, appPath, req.RepoPath)
       IN /\ call' = [source |-> source, appPath |-> appPath, repoPath |-> req.RepoPath]
          /\ statCalls' = GetAppSourceTypeStats(source, appPath, req.RepoPath)
          /\ detectErr' = e
          /\ IF e # None
             THEN /\ err' = "error determining source type"
                  /\ pc' = "failed"
                  /\ UNCHANGED <<sourceType, renderCtx>>
             ELSE /\ sourceType' = type
                  /\ renderCtx' = buildRenderContext(req, source, type)
                  /\ pc' = "detected"
                  /\ err' = err
    /\ UNCHANGED <<fs, req, invoked, renderDir>>
    /\ UNCHANGED <<templateVars, strategyVars, downloadVars, cliVars>>

\* executeByType and the entry of the strategy it selects
ExecuteByType ==
    /\ pc = "detected"
    /\ IF renderCtx.SourceType = ApplicationSourceTypeHelm
       THEN /\ invoked' = "helm"
            /\ IF ~renderCtx.Source.Helm
               THEN /\ err' = "helm configuration not found in application source"
                    /\ renderDir' = {}
               ELSE /\ err' = err
                    /\ renderDir' = {helmRenderDir(renderCtx)}
       ELSE IF renderCtx.SourceType = ApplicationSourceTypeKustomize
       THEN /\ invoked' = "kustomize"
            /\ err' = err
            /\ renderDir' = {getKustomizePath(renderCtx)}
       ELSE IF renderCtx.SourceType = ApplicationSourceTypeDirectory
       THEN /\ invoked' = "directory"
            /\ err' = err
            /\ renderDir' = {getSearchPath(renderCtx)}
       ELSE /\ invoked' = invoked
            /\ err' = "unsupported source type"
            /\ renderDir' = {}
    /\ pc' = "done"
    /\ UNCHANGED <<fs, req, call, sourceType, statCalls, renderCtx, detectErr>>
    /\ UNCHANGED <<templateVars, strategyVars, downloadVars, cliVars>>

\* appPath arguments of a direct call: empty, the repository root itself,
\* a sub-directory
DirectAppPaths(repoPath) == {<<>>, repoPath, <<"apps">>}

\* GetAppSourceType called on its own, as the package's tests call it
CallGetAppSourceType ==
    /\ pc = "start"
    /\ req.Application # Nil
    /\ req.Application.Source # Nil
    /\ req.RepoPath # <<>>
    /\ \E appPath \in DirectAppPaths(req.RepoPath) :
         LET source == req.Application.Source IN
         /\ call' = [source |-> source, appPath |-> appPath, repoPath |-> req.RepoPath]
         /\ sourceType' = GetAppSourceType(source, appPath, req.RepoPath)
         /\ statCalls' = GetAppSourceTypeStats(source, appPath, req.RepoPath)
         /\ detectErr' = GetAppSourceTypeErr(source, appPath, req.RepoPath)
    /\ pc' = "called"
    /\ UNCHANGED <<fs, req, renderCtx, invoked, renderDir, err>>
    /\ UNCHANGED <<templateVars, strategyVars, downloadVars, cliVars>>

(***************************************************************************)
(* renderer.ExecuteCommand of internal/renderer.go: the request carries an *)
(* Argo CD Application, the type comes from the option bundles alone       *)
(***************************************************************************)
ApplicationSourceTypePlugin == "Plugin"

\* renderer.getSource: the first listed source of a multi-source Application
getSource(app) ==
    IF Len(app.Sources) > 0 THEN app.Sources[1] ELSE app.Source

\* renderer.detectSourceType
detectSourceType(source) ==
    IF source.Helm THEN ApplicationSourceTypeHelm
    ELSE IF source.Kustomize THEN ApplicationSourceTypeKustomize
    ELSE IF source.Directory THEN ApplicationSourceTypeDirectory
    ELSE IF source.Plugin THEN ApplicationSourceTypePlugin
    ELSE ApplicationSourceTypeDirectory

\* validateRequest, getSource and the nil check on the source
ResolveSource ==
    /\ pc = "start"
    /\ IF validateRequest(req) # None
       THEN /\ err' = validateRequest(req)
            /\ pc' = "failed"
       ELSE IF getSource(req.Application) = Nil
       THEN /\ err' = "no source found in application"
            /\ pc' = "failed"
       ELSE /\ err' = err
            /\ pc' = "resolved"
    /\ UNCHANGED <<fs, req, call, sourceType, statCalls, renderCtx, invoked, renderDir, detectErr>>
    /\ UNCHANGED <<templateVars, strategyVars, downloadVars, cliVars>>

\* detectSourceType and buildRenderContext
DetectSourceTypeFromBundles ==
    /\ pc = "resolved"
    /\ LET source == getSource(req.Application)
           type == detectSourceType(source)
       IN /\ sourceType' = type
          /\ renderCtx' = buildRenderContext(req, source, type)
    /\ pc' = "detected"
    /\ UNCHANGED <<fs, req, call, statCalls, invoked, renderDir, err, detectErr>>
    /\ UNCHANGED <<templateVars, strategyVars, downloadVars, cliVars>>

NextDispatch ==
    \/ ValidateRequest
    \/ DetectSourceType
    \/ ExecuteByType
    \/ CallGetAppSourceType
    \/ ResolveSource
    \/ DetectSourceTypeFromBundles

SpecDispatch == InitDispatch /\ [][NextDispatch]_vars

(***************************************************************************)
(* TemplateFromApplication: the loop over the sources, parsing and        *)
(* deduplication                                                           *)
(***************************************************************************)
GroupKinds ==
    { [group |-> "apps", kind |-> "Deployment"],
      [group |-> "rbac.authorization.k8s.io", kind |-> "ClusterRole"] }

ObjectNamespaces == {"", "default", "other"}
DestinationNamespaces == {"", "default"}
ObjectNames == {"web"}
Contents == {1}

\* a raw manifest: a document that parses into an object, or one that does not
ParsedManifests ==
    UNION { [ok : {TRUE}, group : {gk.group}, kind : {gk.kind},
             namespace : ObjectNamespaces, name : ObjectNames, content : Contents]
            : gk \in GroupKinds }

Manifests == ParsedManifests \cup {[ok |-> FALSE]}

ManifestLists == UNION {[1..n -> Manifests] : n \in 0..MaxManifests}

DispatchIdle ==
    /\ fs = [d \in Dirs |-> {}]
    /\ req = [Application |-> Nil, RepoPath |-> <<>>]
    /\ pc = "idle"
    /\ call = Nil
    /\ sourceType = None
    /\ statCalls = {}
    /\ renderCtx = Nil
    /\ invoked = None
    /\ renderDir = {}
    /\ err = None
    /\ detectErr = None

\* the sources of the Application with the type the library's detection
\* finds for them: a kustomization under apps, plain manifests under base
TemplateSources ==
    { [Path |-> <<"apps">>, Type |-> ApplicationSourceTypeKustomize],
      [Path |-> <<"base">>, Type |-> ApplicationSourceTypeDirectory] }

RequestLists == UNION {[1..n -> TemplateSources] : n \in 1..MaxSources}

RepoRoots == {<<>>, <<".">>, <<"apps">>}

\* the names os.MkdirTemp picks, one for each call
OverlayNames ==
    <<"kustomize-overlay-1", "kustomize-overlay-2", "kustomize-overlay-3",
      "kustomize-overlay-4">>

\* the state after buildRequestFromApplication returned the requests
InitTemplate ==
    /\ tpc = "loop"
    /\ requests \in RequestLists
    /\ repoRoot \in RepoRoots
    /\ sourceIndex = 0
    /\ generated = <<>>
    /\ tempDirs = {}
    /\ created = {}
    /\ terr = Nil
    /\ sourcesProcessed = 0
    /\ destNs \in DestinationNamespaces
    /\ allManifests = <<>>
    /\ targetObjects = <<>>
    /\ warnings = <<>>
    /\ objects = <<>>
    /\ DispatchIdle
    /\ StrategyIdle
    /\ DownloadIdle
    /\ CliIdle

\* os.MkdirTemp(".", "kustomize-overlay-*"): a fresh directory under the
\* current working directory
MkdirTemp(dir, i) == Join(dir, <<OverlayNames[i]>>)

\* the overlay directories an iteration creates for its source
overlayOf(q, i) ==
    IF q.Type = ApplicationSourceTypeKustomize THEN {MkdirTemp(<<".">>, i + 1)} ELSE {}

\* allManifests = append(allManifests, response.Manifests...)
appendManifests(all, manifests) == all \o manifests

\* an iteration whose repository.GetAppSourceType call returns an error
SourceTypeFails ==
    /\ tpc = "loop"
    /\ terr' = [msg |-> "error getting app source type", index |-> 0]
    /\ tempDirs' = {}
    /\ tpc' = "failed"
    /\ UNCHANGED <<requests, repoRoot, sourceIndex, generated, created,
                   sourcesProcessed, destNs, allManifests, targetObjects,
                   warnings, objects>>
    /\ UNCHANGED <<dispatchVars, strategyVars, downloadVars, cliVars>>

\* an iteration for a Kustomize source whose overlay cannot be built:
\* os.MkdirTemp fails, or os.WriteFile of kustomization.yaml fails
OverlayFails ==
    /\ tpc = "loop"
    /\ LET q == requests[sourceIndex + 1] IN
         /\ q.Type = ApplicationSourceTypeKustomize
         /\ \/ /\ terr' = [msg |-> "error creating temp directory for Kustomize overlay",
                            index |-> 0]
               /\ created' = created
            \/ /\ terr' = [msg |-> "error writing kustomization.yaml", index |-> 0]
               /\ created' = created \cup overlayOf(q, sourceIndex)
    /\ tempDirs' = {}
    /\ tpc' = "failed"
    /\ UNCHANGED <<requests, repoRoot, sourceIndex, generated, sourcesProcessed,
                   destNs, allManifests, targetObjects, warnings, objects>>
    /\ UNCHANGED <<dispatchVars, strategyVars, downloadVars, cliVars>>

\* an iteration whose repository.GenerateManifests call returns an error
GenerateFails ==
    /\ tpc = "loop"
    /\ LET q == requests[sourceIndex + 1] IN
         created' = created \cup overlayOf(q, sourceIndex)
    /\ terr' = [msg |-> "error generating manifests for source",
                index |-> sourceIndex + 1]
    /\ tempDirs' = {}
    /\ tpc' = "failed"
    /\ UNCHANGED <<requests, repoRoot, sourceIndex, generated, sourcesProcessed,
                   destNs, allManifests, targetObjects, warnings, objects>>
    /\ UNCHANGED <<dispatchVars, strategyVars, downloadVars, cliVars>>

\* an iteration that collects the manifests of its source
GenerateSucceeds ==
    /\ tpc = "loop"
    /\ LET q == requests[sourceIndex + 1]
           overlay == overlayOf(q, sourceIndex)
           appPath == IF overlay = {} THEN q.Path ELSE MkdirTemp(<<".">>, sourceIndex + 1)
       IN /\ created' = created \cup overlay
          /\ tempDirs' = tempDirs \cup overlay
          /\ \E n \in 0..(MaxManifests - Len(allManifests)) :
             \E ms \in [1..n -> Manifests] :
               /\ allManifests' = appendManifests(allManifests, ms)
               /\ generated' = Append(generated,
                     [sourceIndex |-> sourceIndex, source |-> q,
                      appPath |-> appPath,
                      repoRoot |-> IF repoRoot = <<>> THEN <<".">> ELSE repoRoot])
    /\ sourceIndex' = sourceIndex + 1
    /\ tpc' = IF sourceIndex + 1 = Len(requests) THEN "collected" ELSE "loop"
    /\ UNCHANGED <<requests, repoRoot, terr, sourcesProcessed, destNs,
                   targetObjects, warnings, objects>>
    /\ UNCHANGED <<dispatchVars, strategyVars, downloadVars, cliVars>>

\* json.Unmarshal of one manifest into a fresh object; idx is the identity of
\* the allocated object (its position among the manifests)
Unmarshal(manifest, i) ==
    [group |-> manifest.group, kind |-> manifest.kind,
     namespace |-> manifest.namespace, name |-> manifest.name,
     content |-> manifest.content, idx |-> i]

RECURSIVE parseFrom(_, _)
\* a parse loop that stops at the first manifest that does not parse
parseFrom_StopAtFailure(ms, i) ==
    IF i > Len(ms) THEN [objs |-> <<>>, warns |-> <<>>]
    ELSE IF ms[i].ok
         THEN LET rest == parseFrom(ms, i + 1) IN
              [objs |-> <<Unmarshal(ms[i], i)>> \o rest.objs, warns |-> rest.warns]
         ELSE [objs |-> <<>>, warns |-> <<[type |-> "parse", idx |-> i]>>]

\* the parse loop from manifest i on: the objects that parsed, and one warning
\* for each manifest that did not
parseFrom(ms, i) ==
    IF i > Len(ms) THEN [objs |-> <<>>, warns |-> <<>>]
    ELSE LET rest == parseFrom(ms, i + 1) IN
         IF ms[i].ok
         THEN [objs |-> <<Unmarshal(ms[i], i)>> \o rest.objs, warns |-> rest.warns]
         ELSE [objs |-> rest.objs,
               warns |-> <<[type |-> "parse", idx |-> i]>> \o rest.warns]

ParseManifests ==
    /\ tpc = "collected"
    /\ LET r == parseFrom(allManifests, 1) IN
         /\ targetObjects' = r.objs
         /\ warnings' = warnings \o r.warns
    /\ tpc' = "parsed"
    /\ UNCHANGED <<requests, repoRoot, sourceIndex, generated, tempDirs, created,
                   terr, sourcesProcessed, destNs, allManifests, objects>>
    /\ UNCHANGED <<dispatchVars, strategyVars, downloadVars, cliVars>>

\* a scope oracle that answers "cluster-scoped" for every kind
IsNamespaced_Never(gk) == FALSE

\* resourceInfoProviderStub.IsNamespaced
IsNamespaced(gk) == TRUE

\* namespace defaulting of the deduplication engine
SetDefaultNamespace(obj, ns) ==
    IF IsNamespaced([group |-> obj.group, kind |-> obj.kind]) /\ obj.namespace = ""
    THEN [obj EXCEPT !.namespace = ns]
    ELSE obj

\* the identity key of the deduplication engine
ResourceKey(obj) == <<obj.group, obj.kind, obj.namespace, obj.name>>

RECURSIVE dedupeFrom(_, _, _)
dedupeFrom(objs, i, seen) ==
    IF i > Len(objs) THEN [objs |-> <<>>, conditions |-> <<>>]
    ELSE LET key == ResourceKey(objs[i]) IN
         IF key \in seen
         THEN LET rest == dedupeFrom(objs, i + 1, seen) IN
              [objs |-> rest.objs,
               conditions |-> <<[type |-> "duplicate", key |-> key]>> \o rest.conditions]
         ELSE LET rest == dedupeFrom(objs, i + 1, seen \cup {key}) IN
              [objs |-> <<objs[i]>> \o rest.objs, conditions |-> rest.conditions]

\* a deduplication engine that compares the keys as they were before namespace
\* defaulting
DeduplicateTargetObjects_KeyBeforeDefaulting(ns, objs) ==
    LET r == dedupeFrom(objs, 1, {}) IN
    [objs |-> [i \in 1..Len(r.objs) |-> SetDefaultNamespace(r.objs[i], ns)],
     conditions |-> r.conditions]

\* controller.DeduplicateTargetObjects, the deduplication engine
DeduplicateTargetObjects(ns, objs) ==
    dedupeFrom([i \in 1..Len(objs) |-> SetDefaultNamespace(objs[i], ns)], 1, {})

\* the call of the deduplication engine, the assembly of the TemplateResult
\* and the deferred os.RemoveAll calls of the return
Deduplicate ==
    /\ tpc = "parsed"
    /\ LET r == DeduplicateTargetObjects(destNs, targetObjects) IN
         /\ objects' = r.objs
         /\ warnings' = warnings \o r.conditions
    /\ sourcesProcessed' = Len(requests)
    /\ tempDirs' = {}
    /\ tpc' = "done"
    /\ UNCHANGED <<requests, repoRoot, sourceIndex, generated, created, terr,
                   destNs, allManifests, targetObjects>>
    /\ UNCHANGED <<dispatchVars, strategyVars, downloadVars, cliVars>>

NextTemplate ==
    \/ SourceTypeFails
    \/ OverlayFails
    \/ GenerateFails
    \/ GenerateSucceeds
    \/ ParseManifests
    \/ Deduplicate

SpecTemplate == InitTemplate /\ [][NextTemplate]_vars

(***************************************************************************)
(* The strategies and the external processes they run: kustomize build,    *)
(* helm template, cat for every manifest file of a directory, and the      *)
(* helm pull of downloadHelmChart                                          *)
(***************************************************************************)
\* the entries a search path can hold, in the lexical order in which
\* filepath.Walk visits them: the name in pieces, the directory the entry is
\* in (relative to the search path), and whether it is a directory
WalkEntries ==
    <<[name |-> <<"README", ".", "md">>, in |-> <<>>, isDir |-> FALSE],
      [name |-> <<"a", ".", "yaml">>, in |-> <<>>, isDir |-> FALSE],
      [name |-> <<"b", ".", "YML">>, in |-> <<>>, isDir |-> FALSE],
      [name |-> <<"c", ".", "json">>, in |-> <<>>, isDir |-> FALSE],
      [name |-> <<"sub">>, in |-> <<>>, isDir |-> TRUE],
      [name |-> <<"d", ".", "yaml">>, in |-> <<"sub">>, isDir |-> FALSE],
      [name |-> <<"e", ".", "txt">>, in |-> <<"sub">>, isDir |-> FALSE],
      [name |-> <<"z", ".", "yml">>, in |-> <<>>, isDir |-> FALSE]>>

\* the entry is somewhere under the directory entry d
IsUnder(e, d) ==
    /\ Len(e.in) > Len(d.in)
    /\ SubSeq(e.in, 1, Len(d.in) + 1) = d.in \o d.name

\* a set of entries is a tree when the directory of every entry is in it
IsTree(S) ==
    \A i \in S : WalkEntries[i].in # <<>> =>
       \E j \in S : WalkEntries[j].isDir /\ IsUnder(WalkEntries[i], WalkEntries[j])

RECURSIVE walkFrom(_, _)
\* the entries of a tree from entry i on, in walk order
walkFrom(i, S) ==
    IF i > Len(WalkEntries) THEN <<>>
    ELSE (IF i \in S THEN <<WalkEntries[i]>> ELSE <<>>) \o walkFrom(i + 1, S)

\* what filepath.Walk finds under the search path: trees of up to MaxFiles
\* entries
FileLists ==
    {walkFrom(1, S) : S \in {T \in SUBSET (1..Len(WalkEntries)) :
                               Cardinality(T) <= MaxFiles /\ IsTree(T)}}

\* the include and exclude patterns of a Directory bundle; the empty
\* pattern is the unset one
Globs == {<<>>, <<"*">>, <<"*", ".", "yaml">>, <<"sub", "/", "*">>}

\* the Directory bundle of a source: nil, or recurse, include and exclude
DirectoryBundles == {Nil} \cup [Recurse : BOOLEAN, Include : Globs, Exclude : Globs]

\* the values files a Helm source can declare, relative to the chart
ValueFileNames == {"a.yaml", "b.yaml"}

ValueFileLists == UNION {[1..n -> ValueFileNames] : n \in 0..MaxValueFiles}

\* the HelmOptions of the request: nil, or the three switches
HelmOptionSets ==
    {Nil} \cup [SkipCrds : BOOLEAN, SkipTests : BOOLEAN, IncludeCrds : BOOLEAN]

\* RenderContext.RepoPath, AppName and Namespace of a strategy run
StrategyRepoPath == <<"repo">>
StrategyAppName == "web"
StrategyNamespace == "default"

\* a string the code takes apart is a sequence of pieces: words, and the
\* characters the code looks for between them
\* strings.Index: the position of the first piece equal to sep, 0 when absent
Index(s, sep) ==
    IF \E i \in 1..Len(s) : s[i] = sep
    THEN CHOOSE i \in 1..Len(s) : s[i] = sep /\ \A k \in 1..(i - 1) : s[k] # sep
    ELSE 0

\* strings.Contains
Contains(s, sep) == Index(s, sep) > 0

\* strings.SplitN(s, sep, 2) of a string that contains sep
SplitN(s, sep) ==
    <<SubSeq(s, 1, Index(s, sep) - 1), SubSeq(s, Index(s, sep) + 1, Len(s))>>

\* unicode.IsSpace for the characters of the build options
IsSpace(c) == c \in {" ", "\t"}

RECURSIVE FieldsFrom(_, _, _, _)
\* strings.Fields: the loop from character i on, with the word being read
\* and the words read so far
FieldsFrom(s, i, word, acc) ==
    IF i > Len(s) THEN (IF word = <<>> THEN acc ELSE Append(acc, word))
    ELSE IF IsSpace(s[i])
         THEN FieldsFrom(s, i + 1, <<>>, IF word = <<>> THEN acc ELSE Append(acc, word))
         ELSE FieldsFrom(s, i + 1, Append(word, s[i]), acc)

\* strings.Fields
Fields(s) == FieldsFrom(s, 1, <<>>, <<>>)

\* the characters of KustomizeOptions.BuildOptions
BuildOptionChars == {" ", "\t", "a", "b"}

BuildOptionStrings == UNION {[1..n -> BuildOptionChars] : n \in 0..MaxBuildOptionsLen}

\* the KustomizeOptions of the request: nil, or the build options
KustomizeOptionSets == {Nil} \cup [BuildOptions : BuildOptionStrings]

\* the parts of an image override in the form [old=]name[:tag|@digest]
ImageOverrides ==
    [old : {<<>>, <<"nginx">>, <<"nginx", ":", "latest">>},
     name : {<<"nginx">>, <<"redis">>},
     suffix : {<<>>, <<":", "1.20">>, <<"@", "sha256", ":", "abc">>}]

\* the KustomizeImage string of an image override
imageString(o) ==
    (IF o.old = <<>> THEN <<>> ELSE o.old \o <<"=">>) \o o.name \o o.suffix

KustomizeImages == {imageString(o) : o \in ImageOverrides}

\* KustomizeReplica.Count: a string of characters
ReplicaCounts == {<<>>, <<"0">>, <<"1">>, <<"3">>, <<"1", "0">>, <<"x">>}

KustomizeReplicas == [Name : {"web"}, Count : ReplicaCounts]

ImageLists == UNION {[1..n -> KustomizeImages] : n \in 0..MaxOverrides}

ReplicaLists == UNION {[1..n -> KustomizeReplicas] : n \in 0..MaxOverrides}

\* an ApplicationSourceKustomize that sets no option
NoKustomizeOptions ==
    [Images |-> <<>>, CommonLabels |-> {}, CommonAnnotations |-> {},
     NamePrefix |-> "", NameSuffix |-> "", Namespace |-> "",
     Replicas |-> <<>>, Patches |-> <<>>, Components |-> <<>>,
     ForceCommonLabels |-> FALSE, ForceCommonAnnotations |-> FALSE]

\* the Kustomize bundle of a source: nil, without options, or with one
\* option set (the common labels and annotations also with their force flag)
KustomizeBundles ==
    {Nil, NoKustomizeOptions}
    \cup {[NoKustomizeOptions EXCEPT !.Images = l] : l \in ImageLists}
    \cup {[NoKustomizeOptions EXCEPT !.Replicas = l] : l \in ReplicaLists}
    \cup {[NoKustomizeOptions EXCEPT !.CommonLabels = {<<"app", "web">>},
                                     !.ForceCommonLabels = f] : f \in BOOLEAN}
    \cup {[NoKustomizeOptions EXCEPT !.CommonAnnotations = {<<"team", "ops">>},
                                     !.ForceCommonAnnotations = f] : f \in BOOLEAN}
    \cup {[NoKustomizeOptions EXCEPT !.NamePrefix = "dev-"],
          [NoKustomizeOptions EXCEPT !.NameSuffix = "-v2"],
          [NoKustomizeOptions EXCEPT !.Namespace = "staging"],
          [NoKustomizeOptions EXCEPT !.Patches = <<"patch.yaml">>],
          [NoKustomizeOptions EXCEPT !.Components = <<"../component">>],
          [NoKustomizeOptions EXCEPT !.ForceCommonLabels = TRUE],
          [NoKustomizeOptions EXCEPT !.ForceCommonAnnotations = TRUE]}

\* the Kustomize sources a run renders: every bundle without build options,
\* every build option string with three of the bundles
KustomizeRequests ==
    [strategy : {"kustomize"}, path : {<<>>, <<"app">>},
     kustomize : KustomizeBundles, opts : {Nil}]
    \cup [strategy : {"kustomize"}, path : {<<>>, <<"app">>},
          kustomize : {Nil, NoKustomizeOptions,
                       [NoKustomizeOptions EXCEPT !.NamePrefix = "dev-"]},
          opts : KustomizeOptionSets]

StrategyRequests ==
    KustomizeRequests
    \cup [strategy : {"helm"}, values : BOOLEAN, fileParameters : BOOLEAN,
          path : {<<>>, <<"chart">>}, valueFiles : ValueFileLists,
          existing : SUBSET ValueFileNames, ignoreMissing : BOOLEAN,
          skipCrds : BOOLEAN, opts : HelmOptionSets]
    \cup [strategy : {"directory"}, files : FileLists, directory : DirectoryBundles]
    \cup [strategy : {"download"}, cached : BOOLEAN]

InitStrategy ==
    /\ spc = "start"
    /\ sreq \in StrategyRequests
    /\ fileIdx = 0
    /\ first = TRUE
    /\ stdout = <<>>
    /\ stemp = {}
    /\ cleanup = {}
    /\ proc = Nil
    /\ cancelled = FALSE
    /\ procEnd = None
    /\ serr = None
    /\ kustomization = Nil
    /\ DispatchIdle
    /\ TemplateIdle
    /\ DownloadIdle
    /\ CliIdle

\* the directory os.MkdirTemp("", "kustomize-overlay-") creates
OverlayDir == "kustomize-overlay"

\* the file addInlineValues writes under os.TempDir()
ValuesFile == "helm-values"

\* one argument of a command line: a literal text or a path
Arg(text) == [text |-> text, path |-> <<>>]
PathArg(path) == [text |-> "", path |-> path]

\* exec.CommandContext(ctx, ...) and exec.Command(...)
Command(name, args, withContext) ==
    [cmd |-> name, args |-> args, ctxBound |-> withContext]

\* one word of the build options as a command line argument
WordArg(word) == [text |-> "", path |-> <<>>, word |-> word]

\* the RenderContext of a strategy run, as far as the paths go
strategyContext(q) == [RepoPath |-> StrategyRepoPath, Source |-> [Path |-> q.path]]

\* an option check that does not look at the replica overrides
hasKustomizeOptions_NoReplicas(kustomize) ==
    \/ Len(kustomize.Images) > 0
    \/ Cardinality(kustomize.CommonLabels) > 0
    \/ Cardinality(kustomize.CommonAnnotations) > 0
    \/ kustomize.NamePrefix # ""
    \/ kustomize.NameSuffix # ""
    \/ kustomize.Namespace # ""
    \/ Len(kustomize.Patches) > 0
    \/ Len(kustomize.Components) > 0
    \/ kustomize.ForceCommonLabels
    \/ kustomize.ForceCommonAnnotations

\* kustomizeRenderer.hasKustomizeOptions
hasKustomizeOptions(kustomize) ==
    \/ Len(kustomize.Images) > 0
    \/ Cardinality(kustomize.CommonLabels) > 0
    \/ Cardinality(kustomize.CommonAnnotations) > 0
    \/ kustomize.NamePrefix # ""
    \/ kustomize.NameSuffix # ""
    \/ kustomize.Namespace # ""
    \/ Len(kustomize.Replicas) > 0
    \/ Len(kustomize.Patches) > 0
    \/ Len(kustomize.Components) > 0
    \/ kustomize.ForceCommonLabels
    \/ kustomize.ForceCommonAnnotations

\* kustomizeRenderer.needsOverlay
needsOverlay(q) == q.kustomize # Nil /\ hasKustomizeOptions(q.kustomize)

\* kustomizeRenderer.buildKustomizeArgs
buildKustomizeArgs(workDir, opts) ==
    LET args == <<Arg("build"), PathArg(workDir)>> IN
    IF opts # Nil /\ opts.BuildOptions # <<>>
    THEN LET buildOpts == Fields(opts.BuildOptions) IN
         args \o [i \in 1..Len(buildOpts) |-> WordArg(buildOpts[i])]
    ELSE args

\* an image parser that looks for the tag before the digest
parseKustomizeImage_TagBeforeDigest(imageStr) ==
    LET hasOld == Contains(imageStr, "=")
        old == IF hasOld THEN SplitN(imageStr, "=")[1] ELSE <<>>
        new == IF hasOld THEN SplitN(imageStr, "=")[2] ELSE imageStr
        img == IF Contains(new, ":")
               THEN [NewName |-> SplitN(new, ":")[1], NewTag |-> SplitN(new, ":")[2],
                     Digest |-> <<>>]
               ELSE IF Contains(new, "@")
               THEN [NewName |-> SplitN(new, "@")[1], NewTag |-> <<>>,
                     Digest |-> SplitN(new, "@")[2]]
               ELSE [NewName |-> new, NewTag |-> <<>>, Digest |-> <<>>]
    IN [Name |-> IF old = <<>> THEN img.NewName ELSE old,
        NewName |-> img.NewName, NewTag |-> img.NewTag, Digest |-> img.Digest]

\* kustomizeRenderer.parseKustomizeImage
parseKustomizeImage(imageStr) ==
    LET hasOld == Contains(imageStr, "=")
        old == IF hasOld THEN SplitN(imageStr, "=")[1] ELSE <<>>
        new == IF hasOld THEN SplitN(imageStr, "=")[2] ELSE imageStr
        img == IF Contains(new, "@")
               THEN [NewName |-> SplitN(new, "@")[1], NewTag |-> <<>>,
                     Digest |-> SplitN(new, "@")[2]]
               ELSE IF Contains(new, ":")
               THEN [NewName |-> SplitN(new, ":")[1], NewTag |-> SplitN(new, ":")[2],
                     Digest |-> <<>>]
               ELSE [NewName |-> new, NewTag |-> <<>>, Digest |-> <<>>]
    IN [Name |-> IF old = <<>> THEN img.NewName ELSE old,
        NewName |-> img.NewName, NewTag |-> img.NewTag, Digest |-> img.Digest]

\* KustomizeReplica.GetIntCount: the count and the error
GetIntCount(r) ==
    IF r.Count = <<>> THEN [count |-> 1, err |-> None]
    ELSE [count |-> 1, err |-> None]

\* the replica overrides of createKustomizationOverlay whose count
\* GetIntCount rejects
invalidReplicas(kustomize) ==
    {i \in 1..Len(kustomize.Replicas) : GetIntCount(kustomize.Replicas[i]).err # None}

\* the kustomizationYaml createKustomizationOverlay builds from the bundle
kustomizationYaml(kustomize) ==
    [Resources |-> <<"base">>,
     Images |-> [i \in 1..Len(kustomize.Images) |->
                    parseKustomizeImage(kustomize.Images[i])],
     CommonLabels |-> kustomize.CommonLabels,
     CommonAnnotations |-> kustomize.CommonAnnotations,
     NamePrefix |-> kustomize.NamePrefix,
     NameSuffix |-> kustomize.NameSuffix,
     Namespace |-> kustomize.Namespace,
     Replicas |-> [i \in 1..Len(kustomize.Replicas) |->
                      [Name |-> kustomize.Replicas[i].Name,
                       Count |-> GetIntCount(kustomize.Replicas[i]).count]],
     Patches |-> kustomize.Patches,
     Components |-> kustomize.Components,
     GeneratorOptions |->
        IF kustomize.ForceCommonLabels \/ kustomize.ForceCommonAnnotations
        THEN [Labels |-> IF kustomize.ForceCommonLabels
                         THEN kustomize.CommonLabels ELSE {},
              Annotations |-> IF kustomize.ForceCommonAnnotations
                              THEN kustomize.CommonAnnotations ELSE {}]
        ELSE Nil]

\* kustomizeRenderer.Execute up to the start of kustomize build:
\* prepareWorkDir and createKustomizationOverlay with the calls that can
\* fail (os.MkdirTemp, filepath.Abs, os.Symlink, os.WriteFile) and the
\* replica count it can reject
StartKustomize ==
    /\ spc = "start"
    /\ sreq.strategy = "kustomize"
    /\ IF ~needsOverlay(sreq)
       THEN /\ proc' = Command("kustomize build",
                               buildKustomizeArgs(getKustomizePath(strategyContext(sreq)),
                                                  sreq.opts),
                               TRUE)
            /\ spc' = "running"
            /\ UNCHANGED <<stemp, cleanup, serr, kustomization>>
       ELSE \E outcome \in {"ok", "mkdir", "abs", "symlink", "write"} :
              IF outcome = "ok" /\ invalidReplicas(sreq.kustomize) = {}
              THEN /\ stemp' = stemp \cup {OverlayDir}
                   /\ cleanup' = {OverlayDir}
                   /\ kustomization' = kustomizationYaml(sreq.kustomize)
                   /\ proc' = Command("kustomize build",
                                      buildKustomizeArgs(<<OverlayDir>>, sreq.opts),
                                      TRUE)
                   /\ spc' = "running"
                   /\ serr' = serr
              ELSE /\ stemp' = IF outcome = "mkdir" THEN stemp
                               ELSE stemp \cup {OverlayDir}
                   /\ serr' = IF outcome \in {"ok", "write"}
                                 /\ invalidReplicas(sreq.kustomize) # {}
                              THEN "failed to create kustomization overlay: invalid replica count"
                              ELSE "failed to create kustomization overlay"
                   /\ spc' = "returned"
                   /\ UNCHANGED <<cleanup, proc, kustomization>>
    /\ UNCHANGED <<sreq, fileIdx, first, stdout, cancelled, procEnd>>
    /\ UNCHANGED <<dispatchVars, templateVars, downloadVars, cliVars>>

\* helmRenderer.resolveValueFilePath for a relative file name
resolveValueFilePath(sourcePath, repoPath, valueFile) ==
    IF sourcePath # <<>>
    THEN Join(Join(repoPath, sourcePath), <<valueFile>>)
    ELSE Join(repoPath, <<valueFile>>)

\* the error of addValueFiles for a values file
valueFileError ==
    [f \in ValueFileNames |->
        IF f = "a.yaml" THEN "error resolving helm value file a.yaml"
        ELSE "error resolving helm value file b.yaml"]

RECURSIVE addValueFilesFrom(_, _, _)
\* a loop over the values files that stops at the first missing file when
\* missing files are to be ignored
addValueFilesFrom_StopAtMissing(args, q, i) ==
    IF i > Len(q.valueFiles) THEN [args |-> args, err |-> None]
    ELSE LET valueFile == q.valueFiles[i]
             resolvedPath == resolveValueFilePath(q.path, StrategyRepoPath, valueFile)
         IN IF valueFile \notin q.existing
            THEN IF q.ignoreMissing
                 THEN [args |-> args, err |-> None]
                 ELSE [args |-> <<>>, err |-> valueFileError[valueFile]]
            ELSE addValueFilesFrom(args \o <<Arg("--values"), PathArg(resolvedPath)>>,
                                   q, i + 1)

\* helmRenderer.addValueFiles: the loop from values file i on
addValueFilesFrom(args, q, i) ==
    IF i > Len(q.valueFiles) THEN [args |-> args, err |-> None]
    ELSE LET valueFile == q.valueFiles[i]
             resolvedPath == resolveValueFilePath(q.path, StrategyRepoPath, valueFile)
         IN IF valueFile \notin q.existing
            THEN IF q.ignoreMissing
                 THEN addValueFilesFrom(args, q, i + 1)
                 ELSE [args |-> <<>>, err |-> valueFileError[valueFile]]
            ELSE addValueFilesFrom(args \o <<Arg("--values"), PathArg(resolvedPath)>>,
                                   q, i + 1)

\* helmRenderer.removeArg: args without the first argument equal to the text
removeArg(args, argToRemove) ==
    LET hits == {i \in 1..Len(args) : args[i] = Arg(argToRemove)} IN
    IF hits = {} THEN args
    ELSE LET i == CHOOSE h \in hits : \A k \in hits : h <= k IN
         SubSeq(args, 1, i - 1) \o SubSeq(args, i + 1, Len(args))

\* skip options that do not look at IncludeCrds
addSkipOptions_IgnoreIncludeCrds(args, q) ==
    LET crds == IF q.skipCrds \/ (q.opts # Nil /\ q.opts.SkipCrds)
                THEN args \o <<Arg("--skip-crds")>> ELSE args
    IN IF q.opts # Nil /\ q.opts.SkipTests
       THEN crds \o <<Arg("--skip-tests")>> ELSE crds

\* helmRenderer.addSkipOptions
addSkipOptions(args, q) ==
    LET crds == IF q.skipCrds \/ (q.opts # Nil /\ q.opts.SkipCrds)
                THEN args \o <<Arg("--skip-crds")>> ELSE args
        tests == IF q.opts # Nil /\ q.opts.SkipTests
                 THEN crds \o <<Arg("--skip-tests")>> ELSE crds
    IN IF q.opts # Nil /\ q.opts.IncludeCrds
       THEN removeArg(tests, "--skip-crds") ELSE tests

\* the arguments buildHelmArgs has before addSkipOptions, when every step
\* succeeds: template, release name, chart path, namespace, values files,
\* the inline values file and the file parameter
helmBaseArgs(q) ==
    LET head == <<Arg("template"), Arg(StrategyAppName),
                  PathArg(IF q.path = <<>> THEN <<".">> ELSE q.path),
                  Arg("--namespace"), Arg(StrategyNamespace)>>
        valued == addValueFilesFrom(head, q, 1).args
        inline == IF q.values THEN valued \o <<Arg("--values"), Arg(ValuesFile)>>
                  ELSE valued
    IN IF q.fileParameters
       THEN inline \o <<Arg("--set-file"), Arg("cert=cert.pem")>> ELSE inline

\* helmRenderer.buildHelmArgs; written and found are the outcomes of
\* os.WriteFile in addInlineValues and of os.Stat in addFileParameters
buildHelmArgs(q, written, found) ==
    LET valueErr == addValueFilesFrom(<<>>, q, 1).err
        tmpFiles == IF valueErr = None /\ q.values /\ written THEN {ValuesFile} ELSE {}
    IN IF valueErr # None
       THEN [args |-> <<>>, tmpFiles |-> {}, onDisk |-> {}, err |-> valueErr]
       ELSE IF q.values /\ ~written
       THEN [args |-> <<>>, tmpFiles |-> {}, onDisk |-> {},
             err |-> "error writing helm values file"]
       ELSE IF q.fileParameters /\ ~found
       THEN [args |-> <<>>, tmpFiles |-> {}, onDisk |-> tmpFiles,
             err |-> "error resolving helm file parameter"]
       ELSE [args |-> addSkipOptions(helmBaseArgs(q), q), tmpFiles |-> tmpFiles,
             onDisk |-> tmpFiles, err |-> None]

\* helmRenderer.Execute up to the start of helm template: buildHelmArgs, the
\* deferred removal of the temporary files, runHelmCommand
StartHelm ==
    /\ spc = "start"
    /\ sreq.strategy = "helm"
    /\ \E written \in BOOLEAN, found \in BOOLEAN :
         LET built == buildHelmArgs(sreq, written, found) IN
         /\ stemp' = stemp \cup built.onDisk
         /\ IF built.err # None
            THEN /\ serr' = built.err
                 /\ spc' = "returned"
                 /\ UNCHANGED <<cleanup, proc>>
            ELSE /\ cleanup' = built.tmpFiles
                 /\ proc' = Command("helm template", built.args, TRUE)
                 /\ spc' = "running"
                 /\ serr' = serr
    /\ UNCHANGED <<sreq, kustomization, fileIdx, first, stdout, cancelled, procEnd>>
    /\ UNCHANGED <<dispatchVars, templateVars, downloadVars, cliVars>>

\* filepath.Ext: the name from its last dot on
Ext(name) ==
    LET dots == {i \in 1..Len(name) : name[i] = "."} IN
    IF dots = {} THEN <<>>
    ELSE SubSeq(name, CHOOSE i \in dots : \A k \in dots : k <= i, Len(name))

\* strings.ToLower of the pieces of an extension
ToLower(s) ==
    [i \in 1..Len(s) |->
        CASE s[i] = "YML" -> "yml"
          [] s[i] = "YAML" -> "yaml"
          [] s[i] = "JSON" -> "json"
          [] OTHER -> s[i]]

\* directoryRenderer.isManifestFile
isManifestFile(ext) ==
    ext = <<".", "yaml">> \/ ext = <<".", "yml">> \/ ext = <<".", "json">>

RECURSIVE Rel(_, _)
\* filepath.Rel(searchPath, path) of an entry: its directories and its name
Rel(in, name) ==
    IF in = <<>> THEN name ELSE <<Head(in), "/">> \o Rel(Tail(in), name)

RECURSIVE Match(_, _)
\* filepath.Match: a star matches any run of pieces without a separator
Match(pattern, name) ==
    IF pattern = <<>> THEN name = <<>>
    ELSE IF Head(pattern) = "*"
    THEN \E k \in 0..Len(name) :
            /\ \A j \in 1..k : name[j] # "/"
            /\ Match(Tail(pattern), SubSeq(name, k + 1, Len(name)))
    ELSE name # <<>> /\ Head(name) = Head(pattern) /\ Match(Tail(pattern), Tail(name))

\* directoryRenderer.matchesPattern
matchesPattern(path, include, exclude) ==
    IF include # <<>> /\ ~Match(include, path) THEN FALSE
    ELSE IF exclude # <<>> /\ Match(exclude, path) THEN FALSE
    ELSE TRUE

\* a file filter that compares the extension as it is written
shouldIncludeFile_CaseSensitive(entry, directory) ==
    IF ~isManifestFile(Ext(entry.name)) THEN FALSE
    ELSE IF directory = Nil THEN TRUE
    ELSE matchesPattern(Rel(entry.in, entry.name), directory.Include, directory.Exclude)

\* directoryRenderer.shouldIncludeFile
shouldIncludeFile(entry, directory) ==
    IF ~isManifestFile(ToLower(Ext(entry.name))) THEN FALSE
    ELSE IF directory = Nil THEN TRUE
    ELSE matchesPattern(Rel(entry.in, entry.name), directory.Include, directory.Exclude)

\* directoryRenderer.shouldRecurse
shouldRecurse(directory) == IF directory # Nil THEN directory.Recurse ELSE TRUE

\* the entries filepath.Walk leaves out when the callback returns SkipDir
\* for the directory at position i
skipped(files, i) == {j \in (i + 1)..Len(files) : IsUnder(files[j], files[i])}

\* directoryRenderer.Execute: the start of filepath.Walk
StartDirectory ==
    /\ spc = "start"
    /\ sreq.strategy = "directory"
    /\ spc' = "walking"
    /\ UNCHANGED <<sreq, kustomization, fileIdx, first, stdout, stemp, cleanup, proc, cancelled,
                   procEnd, serr>>
    /\ UNCHANGED <<dispatchVars, templateVars, downloadVars, cliVars>>

\* the callback of walkAndOutputFiles for one entry below the search path:
\* a directory is skipped (handleDirectory) or read, which can fail; a file
\* that shouldIncludeFile accepts gets the separator (unless it is the
\* first) and a cat process
VisitFile ==
    /\ spc = "walking"
    /\ fileIdx < Len(sreq.files)
    /\ LET entry == sreq.files[fileIdx + 1]
           recurse == shouldRecurse(sreq.directory)
       IN IF entry.isDir
          THEN /\ \E readable \in BOOLEAN :
                    IF ~recurse
                    THEN /\ fileIdx' = fileIdx + 1 + Cardinality(skipped(sreq.files, fileIdx + 1))
                         /\ UNCHANGED <<spc, serr>>
                    ELSE IF readable
                    THEN /\ fileIdx' = fileIdx + 1
                         /\ UNCHANGED <<spc, serr>>
                    ELSE /\ serr' = "permission denied"
                         /\ spc' = "returned"
                         /\ fileIdx' = fileIdx
               /\ UNCHANGED <<stdout, first, proc>>
          ELSE IF shouldIncludeFile(entry, sreq.directory)
          THEN /\ stdout' = IF first THEN stdout
                            ELSE Append(stdout, [kind |-> "separator", idx |-> 0])
               /\ first' = FALSE
               /\ proc' = Command("cat", <<WordArg(Rel(entry.in, entry.name))>>, TRUE)
               /\ spc' = "running"
               /\ UNCHANGED <<fileIdx, serr>>
          ELSE /\ fileIdx' = fileIdx + 1
               /\ UNCHANGED <<stdout, first, proc, spc, serr>>
    /\ UNCHANGED <<sreq, kustomization, stemp, cleanup, cancelled, procEnd>>
    /\ UNCHANGED <<dispatchVars, templateVars, downloadVars, cliVars>>

\* filepath.Walk has visited every entry
WalkDone ==
    /\ spc = "walking"
    /\ fileIdx = Len(sreq.files)
    /\ spc' = "returned"
    /\ UNCHANGED <<sreq, kustomization, fileIdx, first, stdout, stemp, cleanup, proc, cancelled,
                   procEnd, serr>>
    /\ UNCHANGED <<dispatchVars, templateVars, downloadVars, cliVars>>

\* downloadHelmChart: the cache lookup and the start of helm pull
StartDownload ==
    /\ spc = "start"
    /\ sreq.strategy = "download"
    /\ IF sreq.cached
       THEN /\ spc' = "returned"
            /\ proc' = proc
       ELSE /\ proc' = Command("helm pull", <<>>, FALSE)
            /\ spc' = "running"
    /\ UNCHANGED <<sreq, kustomization, fileIdx, first, stdout, stemp, cleanup, cancelled,
                   procEnd, serr>>
    /\ UNCHANGED <<dispatchVars, templateVars, downloadVars, cliVars>>


\* what a process that exits with status 0 has written to os.Stdout
outputOf(p, i) ==
    IF p.cmd = "cat" THEN <<[kind |-> "file", idx |-> i]>>
    ELSE IF p.cmd = "helm pull" THEN <<>>
    ELSE <<[kind |-> "rendered", idx |-> 0]>>

\* cmd.Run (cmd.CombinedOutput for helm pull) returns because the process
\* exited on its own, with status 0 or not; the deferred cleanup runs when
\* the strategy returns
ProcessExits ==
    /\ spc = "running"
    /\ \E ok \in BOOLEAN, renamed \in BOOLEAN :
         /\ stdout' = IF ok THEN stdout \o outputOf(proc, fileIdx + 1) ELSE stdout
         /\ IF ok /\ proc.cmd = "cat"
            THEN /\ fileIdx' = fileIdx + 1
                 /\ spc' = "walking"
                 /\ UNCHANGED <<stemp, serr>>
            ELSE /\ serr' = IF ~ok THEN "exit status 1"
                            ELSE IF proc.cmd = "helm pull" /\ ~renamed
                            THEN "failed to rename chart directory"
                            ELSE serr
                 /\ stemp' = stemp \ cleanup
                 /\ spc' = "returned"
                 /\ fileIdx' = fileIdx
    /\ proc' = Nil
    /\ procEnd' = "exited"
    /\ UNCHANGED <<sreq, kustomization, first, cleanup, cancelled>>
    /\ UNCHANGED <<dispatchVars, templateVars, downloadVars, cliVars>>

\* the invoking context is cancelled while a process is in flight: a process
\* started with exec.CommandContext is killed and cmd.Run returns its error,
\* a process started with exec.Command runs on
Cancel ==
    /\ spc = "running"
    /\ ~cancelled
    /\ cancelled' = TRUE
    /\ IF proc.ctxBound
       THEN /\ proc' = Nil
            /\ procEnd' = "killed"
            /\ serr' = "signal: killed"
            /\ stemp' = stemp \ cleanup
            /\ spc' = "returned"
       ELSE UNCHANGED <<proc, procEnd, serr, stemp, spc>>
    /\ UNCHANGED <<sreq, kustomization, fileIdx, first, stdout, cleanup>>
    /\ UNCHANGED <<dispatchVars, templateVars, downloadVars, cliVars>>

NextStrategy ==
    \/ StartKustomize
    \/ StartHelm
    \/ StartDirectory
    \/ VisitFile
    \/ WalkDone
    \/ StartDownload
    \/ ProcessExits
    \/ Cancel

SpecStrategy == InitStrategy /\ [][NextStrategy]_vars

(***************************************************************************)
(* Two render calls of one process that reach downloadHelmChart at the     *)
(* same time; they share the chart cache directory on disk                 *)
(***************************************************************************)
Calls == {1, 2}

\* repoURL, chart name and version of a remote chart (one repository)
ChartRefs == [chart : {"redis", "nginx"}, version : {"1", "2"}]

\* the cache before the calls: charts downloaded by earlier runs
InitialCaches == {{}} \cup {{[ref |-> c, content |-> c]} : c \in ChartRefs}

InitDownload ==
    /\ dreq \in [Calls -> ChartRefs]
    /\ dpc = [p \in Calls |-> "start"]
    /\ dres = [p \in Calls |-> None]
    /\ chartCache \in InitialCaches
    /\ extracted = {}
    /\ DispatchIdle
    /\ TemplateIdle
    /\ StrategyIdle
    /\ CliIdle

\* os.Stat(chartDir) err == nil: chart-<hash> of the reference exists
isCached(ref) == \E e \in chartCache : e.ref = ref

\* filepath.Join(helmCacheDir, chartName) exists
isExtracted(chart) == \E e \in extracted : e.chart = chart

\* the cache lookup: a cached chart is returned, otherwise helm pull starts
CheckCache(p) ==
    /\ dpc[p] = "start"
    /\ IF isCached(dreq[p])
       THEN /\ dpc' = [dpc EXCEPT ![p] = "returned"]
            /\ dres' = [dres EXCEPT ![p] = "ok"]
       ELSE /\ dpc' = [dpc EXCEPT ![p] = "pulling"]
            /\ dres' = dres
    /\ UNCHANGED <<dreq, chartCache, extracted>>
    /\ UNCHANGED <<dispatchVars, templateVars, strategyVars, cliVars>>

\* helm pull --destination helmCacheDir --untar exits: it has unpacked the
\* chart into helmCacheDir/<chart>; when that directory exists already the
\* tool either refuses or unpacks over it
PullCompletes(p) ==
    /\ dpc[p] = "pulling"
    /\ LET ref == dreq[p]
           unpacked == {e \in extracted : e.chart # ref.chart}
                         \cup {[chart |-> ref.chart, content |-> ref]}
       IN \/ /\ extracted' = unpacked
             /\ dpc' = [dpc EXCEPT ![p] = "pulled"]
             /\ dres' = dres
          \/ /\ isExtracted(ref.chart)
             /\ dpc' = [dpc EXCEPT ![p] = "returned"]
             /\ dres' = [dres EXCEPT ![p] = "helm pull failed"]
             /\ extracted' = extracted
    /\ UNCHANGED <<dreq, chartCache>>
    /\ UNCHANGED <<dispatchVars, templateVars, strategyVars, cliVars>>

\* os.Rename(extractedDir, chartDir): fails when the unpacked directory is
\* gone or chart-<hash> exists already
RenameChart(p) ==
    /\ dpc[p] = "pulled"
    /\ LET ref == dreq[p] IN
       IF ~isExtracted(ref.chart) \/ isCached(ref)
       THEN /\ dres' = [dres EXCEPT ![p] = "failed to rename chart directory"]
            /\ UNCHANGED <<chartCache, extracted>>
       ELSE /\ chartCache' = chartCache \cup
                   {[ref |-> ref, content |-> e.content] : e \in
                       {x \in extracted : x.chart = ref.chart}}
            /\ extracted' = {e \in extracted : e.chart # ref.chart}
            /\ dres' = [dres EXCEPT ![p] = "ok"]
    /\ dpc' = [dpc EXCEPT ![p] = "returned"]
    /\ UNCHANGED dreq
    /\ UNCHANGED <<dispatchVars, templateVars, strategyVars, cliVars>>

NextDownload ==
    \/ \E p \in Calls : CheckCache(p)
    \/ \E p \in Calls : PullCompletes(p)
    \/ \E p \in Calls : RenameChart(p)

SpecDownload == InitDownload /\ [][NextDownload]_vars

(***************************************************************************)
(* main of cmd/local-argocd-renderer: what it does with the result of      *)
(* TemplateFromApplication                                                 *)
(***************************************************************************)
WarningLists == UNION {[1..n -> {"parse", "duplicate"}] : n \in 0..MaxManifests}

\* what TemplateFromApplication returns: an error, or the number of objects
\* and the warnings
TemplateResults ==
    [err : {"error"}, objects : {0}, warnings : {<<>>}]
    \cup [err : {None}, objects : 0..MaxManifests, warnings : WarningLists]

InitCli ==
    /\ cpc = "start"
    /\ cliApp \in BOOLEAN
    /\ cliResult \in TemplateResults
    /\ objIdx = 0
    /\ exitCode = 0
    /\ cliStderr = <<>>
    /\ cliStdout = <<>>
    /\ DispatchIdle
    /\ TemplateIdle
    /\ StrategyIdle
    /\ DownloadIdle

\* one line (or document) written to a stream
Line(kind, i) == [kind |-> kind, idx |-> i]

\* flag parsing, the call of TemplateFromApplication, the report of an
\* error or of the warnings, and the header of the manifest stream
CliRender ==
    /\ cpc = "start"
    /\ IF ~cliApp
       THEN /\ cliStderr' = Append(cliStderr, Line("usage", 0))
            /\ exitCode' = 1
            /\ cpc' = "exited"
            /\ cliStdout' = cliStdout
       ELSE IF cliResult.err # None
       THEN /\ cliStderr' = Append(cliStderr, Line("error", 0))
            /\ exitCode' = 1
            /\ cpc' = "exited"
            /\ cliStdout' = cliStdout
       ELSE /\ cliStderr' = cliStderr \o
                   [i \in 1..Len(cliResult.warnings) |-> Line("warning", i)]
            /\ cliStdout' = cliStdout \o <<Line("header", 0), Line("separator", 0)>>
            /\ exitCode' = exitCode
            /\ cpc' = "printing"
    /\ UNCHANGED <<cliApp, cliResult, objIdx>>
    /\ UNCHANGED <<dispatchVars, templateVars, strategyVars, downloadVars>>

\* one iteration of the output loop: the separator, yaml.Marshal and the
\* print of the object, or of the marshal error
CliPrintObject ==
    /\ cpc = "printing"
    /\ objIdx < cliResult.objects
    /\ LET sep == IF objIdx > 0 THEN <<Line("separator", 0)>> ELSE <<>> IN
       \E marshalled \in BOOLEAN :
         IF marshalled
         THEN /\ cliStdout' = cliStdout \o sep \o <<Line("object", objIdx + 1)>>
              /\ objIdx' = objIdx + 1
              /\ UNCHANGED <<exitCode, cpc>>
         ELSE /\ cliStdout' = cliStdout \o sep \o <<Line("error", objIdx + 1)>>
              /\ exitCode' = 1
              /\ cpc' = "exited"
              /\ objIdx' = objIdx
    /\ UNCHANGED <<cliApp, cliResult, cliStderr>>
    /\ UNCHANGED <<dispatchVars, templateVars, strategyVars, downloadVars>>

\* main returns after the last object
CliExit ==
    /\ cpc = "printing"
    /\ objIdx = cliResult.objects
    /\ cpc' = "exited"
    /\ UNCHANGED <<cliApp, cliResult, objIdx, exitCode, cliStderr, cliStdout>>
    /\ UNCHANGED <<dispatchVars, templateVars, strategyVars, downloadVars>>

NextCli ==
    \/ CliRender
    \/ CliPrintObject
    \/ CliExit

SpecCli == InitCli /\ [][NextCli]_vars

(***************************************************************************)
(* Properties of deduplication                                             *)
(***************************************************************************)
IdentityKey(o) == <<o.group, o.kind, o.namespace, o.name>>

NamespaceScopedKinds == {"Deployment"}
ClusterScopedKinds == {"ClusterRole"}

\* the object as it was parsed, before the engine touched it
Parsed(o) == CHOOSE t \in {targetObjects[i] : i \in 1..Len(targetObjects)} : t.idx = o.idx

InOutput(t) == \E i \in 1..Len(objects) : objects[i].idx = t.idx

\* C2: no two objects of the deduplicated result share the identity key
\* (group, kind, namespace, name).
C2_UniqueKeys ==
    tpc = "done" =>
        \A i, j \in 1..Len(objects) :
            i # j => IdentityKey(objects[i]) # IdentityKey(objects[j])

\* C2 witness: three parsed objects, two of them with one key, two kept
C2_Witness ==
    /\ tpc = "done"
    /\ Len(targetObjects) = 3
    /\ Len(objects) = 2
    /\ IdentityKey(objects[1]) # IdentityKey(objects[2])

C6_ClusterScopedKeepsNoNamespace ==
    tpc = "done" =>
        /\ \A i \in 1..Len(objects) :
              (objects[i].kind \in ClusterScopedKinds /\ Parsed(objects[i]).namespace = "")
                  => objects[i].namespace = ""
        /\ \A i \in 1..Len(targetObjects) :
              targetObjects[i].kind \in ClusterScopedKinds
                  => ~IsNamespaced([group |-> targetObjects[i].group,
                                    kind |-> targetObjects[i].kind])

(***************************************************************************)
(* Properties of source type detection                                     *)
(***************************************************************************)
Called == call # Nil

NoBundle(source) == ~source.Helm /\ ~source.Kustomize /\ ~source.Directory

\* the directory the detector is specified to look at
ResolvedDir ==
    IF call.appPath = <<>> \/ call.appPath = call.repoPath
    THEN Clean(call.repoPath)
    ELSE Clean(call.repoPath \o call.appPath)

FileIn(dir, file) == dir \in DOMAIN fs /\ file \in fs[dir]

HasChart(dir) == FileIn(dir, "Chart.yaml") \/ FileIn(dir, "Chart.yml")

HasKustomization(dir) ==
    \/ FileIn(dir, "kustomization.yaml")
    \/ FileIn(dir, "kustomization.yml")
    \/ FileIn(dir, "Kustomization")

\* C7: with an option bundle set, GetAppSourceType returns the kind of the
\* first populated bundle in the order Helm, Kustomize, Directory, whatever
\* files exist, and it asks the filesystem nothing.
C7_ExplicitBundleWins ==
    (Called /\ ~NoBundle(call.source)) =>
        /\ sourceType = (IF call.source.Helm THEN "Helm"
                         ELSE IF call.source.Kustomize THEN "Kustomize"
                         ELSE "Directory")
        /\ statCalls = {}

\* C7 witness: Helm and Kustomize bundles both set, only a kustomization
\* descriptor on disk, and Helm returned
C7_Witness ==
    /\ Called
    /\ call.source.Helm /\ call.source.Kustomize
    /\ HasKustomization(ResolvedDir) /\ ~HasChart(ResolvedDir)
    /\ sourceType = "Helm"
    /\ statCalls = {}

\* C8: with no bundle set and a chart descriptor in the resolved directory,
\* GetAppSourceType returns Helm, also next to a kustomization descriptor.
C8_ChartMeansHelm ==
    (Called /\ NoBundle(call.source) /\ HasChart(ResolvedDir)) =>
        sourceType = "Helm"

\* C8 witness: Chart.yaml and kustomization.yaml side by side, Helm returned
C8_Witness ==
    /\ Called
    /\ NoBundle(call.source)
    /\ FileIn(ResolvedDir, "Chart.yaml")
    /\ FileIn(ResolvedDir, "kustomization.yaml")
    /\ sourceType = "Helm"

\* C9: with no bundle set and no chart descriptor, GetAppSourceType returns
\* Kustomize when one of the three kustomization descriptors is in the
\* resolved directory and Directory otherwise; what it returns is always one
\* of Helm, Kustomize, Directory.
C9_KustomizeElseDirectory ==
    Called =>
        /\ sourceType \in {"Helm", "Kustomize", "Directory"}
        /\ (NoBundle(call.source) /\ ~HasChart(ResolvedDir)) =>
              sourceType = (IF HasKustomization(ResolvedDir)
                            THEN "Kustomize" ELSE "Directory")

\* C9 witness: the only marker is the file named Kustomization
C9_Witness ==
    /\ Called
    /\ NoBundle(call.source)
    /\ FileIn(ResolvedDir, "Kustomization")
    /\ ~FileIn(ResolvedDir, "kustomization.yaml")
    /\ ~FileIn(ResolvedDir, "kustomization.yml")
    /\ ~HasChart(ResolvedDir)
    /\ sourceType = "Kustomize"

\* marker inference asked about files of the resolved directory only
InspectsResolvedDirOnly ==
    (Called /\ NoBundle(call.source)) =>
        /\ statCalls # {}
        /\ \A sc \in statCalls : sc[1] = ResolvedDir

\* the directory the dispatcher's detector inspected is the one the invoked
\* strategy renders
InspectsRenderedDir ==
    (pc = "done" /\ NoBundle(renderCtx.Source) /\ renderDir # {}) =>
        \A sc \in statCalls : \A d \in renderDir : sc[1] = Clean(d)

\* C10: marker inference inspects exactly one directory, repoRoot joined with
\* appPath (repoRoot alone when appPath is empty or equal to repoRoot), and
\* the dispatcher inspects the directory its strategy later renders.
C10_InspectsOneDirectory ==
    /\ InspectsResolvedDirOnly
    /\ InspectsRenderedDir

(***************************************************************************)
(* Properties of the dispatcher                                            *)
(***************************************************************************)
\* C11: with no bundle set and a resolved directory that cannot be read,
\* GetAppSourceType returns an error and no source type.
C11_UnreadableDirectoryFails ==
    (Called /\ NoBundle(call.source) /\ ResolvedDir \notin DOMAIN fs) =>
        /\ detectErr # None
        /\ sourceType = None

StrategyOf(type) ==
    IF type = "Helm" THEN "helm"
    ELSE IF type = "Kustomize" THEN "kustomize"
    ELSE IF type = "Directory" THEN "directory"
    ELSE None

\* a strategy runs only for the one type that was resolved, and a type
\* outside Helm, Kustomize, Directory ends in an error without a strategy
OneTypeOneStrategy ==
    /\ invoked # None =>
          /\ renderCtx # Nil
          /\ sourceType = renderCtx.SourceType
          /\ invoked = StrategyOf(sourceType)
    /\ pc = "done" =>
          IF renderCtx.SourceType \in {"Helm", "Kustomize", "Directory"}
          THEN invoked # None
          ELSE /\ invoked = None
               /\ renderDir = {}
               /\ err = "unsupported source type"

\* the type is resolved before the strategy is invoked, and neither the
\* context nor the choice of strategy changes afterwards
TypeFixedOnceResolved ==
    /\ renderCtx # Nil => renderCtx' = renderCtx
    /\ invoked # None => invoked' = invoked
    /\ (invoked = None /\ invoked' # None) => renderCtx # Nil

\* C12: exactly one SourceType is resolved before a strategy is invoked,
\* exactly one strategy is invoked and it matches that type, the type in
\* the RenderContext does not change afterwards, and a type that is not Helm,
\* Kustomize or Directory gives 'unsupported source type' with no strategy.
C12_OneTypeOneStrategy ==
    [] OneTypeOneStrategy /\ [][TypeFixedOnceResolved]_vars

\* C12 witness: a Plugin source ended in the error, no strategy ran
C12_Witness ==
    /\ pc = "done"
    /\ renderCtx.SourceType = "Plugin"
    /\ err = "unsupported source type"
    /\ invoked = None

\* the sources an Application declares, in declared order
DeclaredSources(app) ==
    IF Len(app.Sources) > 0 THEN app.Sources ELSE <<app.Source>>

\* C13: a successful render has rendered every declared source of the
\* Application once, in declared order; none is skipped.
C13_EverySourceRendered ==
    (pc = "done" /\ err = None) =>
        <<renderCtx.Source>> = DeclaredSources(req.Application)

\* C17: a request without Application or with an empty RepoPath ends in a
\* configuration error, with no source resolved, no type detected, no
\* strategy invoked and nothing rendered.
C17_InvalidRequestRejected ==
    (pc # "start" /\ (req.Application = Nil \/ req.RepoPath = <<>>)) =>
        /\ pc = "failed"
        /\ err \in {"application is required", "repoPath is required"}
        /\ call = Nil
        /\ sourceType = None
        /\ statCalls = {}
        /\ renderCtx = Nil
        /\ invoked = None
        /\ renderDir = {}

\* C17 witness: an Application with a source but no repository path
C17_Witness ==
    /\ pc = "failed"
    /\ req.Application # Nil
    /\ req.Application.Source # Nil
    /\ req.RepoPath = <<>>
    /\ err = "repoPath is required"

(***************************************************************************)
(* Properties of TemplateFromApplication                                   *)
(***************************************************************************)
\* C14: when detection or generation fails for the source at position i, the
\* error names position i, no later source was processed and no result
\* (objects, warnings, count) is returned.
C14_ErrorNamesFailingSource ==
    (/\ tpc = "failed"
     /\ terr.msg \in {"error getting app source type",
                      "error generating manifests for source"}) =>
        /\ terr.index = sourceIndex + 1
        /\ Len(generated) = sourceIndex
        /\ objects = <<>>
        /\ warnings = <<>>
        /\ sourcesProcessed = 0

\* every manifest that parses is passed on once, every manifest that does not
\* is left out with one warning, and parse warnings come before duplicate
\* warnings
ParseFailuresAreWarnings ==
    tpc \in {"parsed", "done"} =>
        /\ terr = Nil
        /\ \A i \in 1..Len(allManifests) :
             LET passed == {j \in 1..Len(targetObjects) : targetObjects[j].idx = i}
                 warned == {j \in 1..Len(warnings) :
                              /\ warnings[j].type = "parse"
                              /\ warnings[j].idx = i}
             IN IF allManifests[i].ok
                THEN /\ Cardinality(passed) = 1
                     /\ \A j \in passed : targetObjects[j] = Unmarshal(allManifests[i], i)
                     /\ warned = {}
                ELSE /\ passed = {}
                     /\ Cardinality(warned) = 1
        /\ \A j, k \in 1..Len(targetObjects) :
             j < k => targetObjects[j].idx < targetObjects[k].idx
        /\ \A j, k \in 1..Len(warnings) :
             j < k => ~(warnings[j].type = "duplicate" /\ warnings[k].type = "parse")

\* the step after the manifests are collected is the parse step, whatever
\* the manifests are
ParseNeverFails == tpc = "collected" => tpc' = "parsed"

\* C16: a manifest that does not parse never fails the render: it is left out
\* of the objects passed to deduplication, exactly one warning is recorded for
\* it, all other manifests are processed, and every parse warning precedes
\* every duplicate warning.
C16_ParseFailuresAreWarnings ==
    [] ParseFailuresAreWarnings /\ [][ParseNeverFails]_vars

\* C16 witness: a finished render with a manifest that did not parse, one
\* that did, and a duplicate
C16_Witness ==
    /\ tpc = "done"
    /\ \E i \in 1..Len(allManifests) : ~allManifests[i].ok
    /\ Len(objects) > 0
    /\ \E j \in 1..Len(warnings) : warnings[j].type = "duplicate"
    /\ warnings[1].type = "parse"

\* the repository root the render works on
EffectiveRepoRoot == IF repoRoot = <<>> THEN <<".">> ELSE repoRoot

\* p lies in the directory tree under root (both relative to the working
\* directory)
InsideTree(root, p) ==
    LET r == Clean(root)
        c == Clean(p)
    IN IF r = <<".">> THEN c[1] # ".."
       ELSE Len(c) >= Len(r) /\ SubSeq(c, 1, Len(r)) = r

\* C19: nothing is created inside the source repository tree; the Kustomize
\* overlay lies outside the repository root, also when the repository root
\* is the current working directory.
C19_RepositoryUntouched ==
    \A d \in created : ~InsideTree(EffectiveRepoRoot, d)

(***************************************************************************)
(* Properties of the strategies                                            *)
(***************************************************************************)
\* C15: when a render ends with an error, nothing has been written to the
\* manifest output stream.
C15_NoOutputOnError ==
    (spc = "returned" /\ serr # None) => stdout = <<>>

\* C18: when the strategy has returned, the overlay directory it created
\* is removed, whatever the exit path.
C18_OverlayRemovedOnReturn ==
    spc = "returned" => OverlayDir \notin stemp

\* C20: when the context is cancelled while an external process is in
\* flight, the process is terminated, an error is returned and the temporary
\* overlay directories and values files are removed.
C20_CancelTerminatesProcess ==
    (spc = "returned" /\ cancelled) =>
        /\ procEnd = "killed"
        /\ serr # None
        /\ stemp = {}

\* C28: every type GetAppSourceType returns is accepted by the strategy the
\* dispatcher hands the source to; a source inferred as Helm from a Chart.yaml
\* is rendered by helm template, not rejected.
C28_DetectedTypeIsRendered ==
    (pc = "done" /\ call # Nil) =>
        /\ err = None
        /\ invoked = StrategyOf(sourceType)
        /\ renderDir # {}

\* C29: when the Helm strategy has returned, the inline-values file it wrote
\* is removed, whatever the exit path.
C29_ValuesFileRemovedOnReturn ==
    spc = "returned" => ValuesFile \notin stemp

(***************************************************************************)
(* Properties of concurrent renders                                        *)
(***************************************************************************)
\* C21: a downloadHelmChart call that runs concurrently with another returns
\* what it returns when it runs alone: the directory of the chart it asked for.
C21_ConcurrentCallsIndependent ==
    \A p \in Calls :
        dpc[p] = "returned" =>
            /\ dres[p] = "ok"
            /\ \E e \in chartCache : e.ref = dreq[p] /\ e.content = dreq[p]

(***************************************************************************)
(* Properties of the command line                                          *)
(***************************************************************************)
\* the output loop stopped on a yaml.Marshal error
SerializationFailed == cpc = "exited" /\ objIdx < cliResult.objects

\* C23: a run that called the render exits nonzero, with a message on
\* stderr, exactly when the render returned an error or the serialization of
\* the output failed; warnings go to stderr only, and the manifest stream
\* holds no warning and no message.
C23_ExitStatusAndStreams ==
    (cpc = "exited" /\ cliApp) =>
        /\ exitCode # 0 <=> (cliResult.err # None \/ SerializationFailed)
        /\ exitCode # 0 => \E i \in 1..Len(cliStderr) : cliStderr[i].kind = "error"
        /\ \A i \in 1..Len(cliStdout) :
             cliStdout[i].kind \in {"header", "separator", "object"}
        /\ \A i \in 1..Len(cliResult.warnings) :
             \E j \in 1..Len(cliStderr) : cliStderr[j] = Line("warning", i)

(***************************************************************************)
(* Properties of the helm command line                                     *)
(***************************************************************************)
\* the positions of the declared values files that do not exist
MissingValueFiles(q) ==
    {i \in 1..Len(q.valueFiles) : q.valueFiles[i] \notin q.existing}

\* the paths that follow a --values argument, in command line order
ValuePaths(args) ==
    LET idx == SelectSeq([i \in 1..Len(args) |-> i],
                         LAMBDA i : /\ i > 1
                                    /\ args[i - 1] = Arg("--values")
                                    /\ args[i].path # <<>>)
    IN [k \in 1..Len(idx) |-> args[idx[k]].path]

\* the declared values files that exist, resolved, in declared order
ExistingValuePaths(q) ==
    LET present == SelectSeq(q.valueFiles, LAMBDA f : f \in q.existing) IN
    [k \in 1..Len(present) |->
        resolveValueFilePath(q.path, StrategyRepoPath, present[k])]

\* C22: a declared values file that does not exist makes the Helm strategy
\* fail with an error naming the file, unless IgnoreMissingValueFiles is set;
\* then the file is left out of the arguments, no error is produced and the
\* existing values files are passed in declared order.
C22_MissingValueFiles ==
    (sreq.strategy = "helm" /\ spc # "start") =>
        LET miss == MissingValueFiles(sreq) IN
        IF miss # {} /\ ~sreq.ignoreMissing
        THEN /\ spc = "returned"
             /\ procEnd = None
             /\ \E i \in miss :
                  /\ \A k \in miss : i <= k
                  /\ serr = valueFileError[sreq.valueFiles[i]]
        ELSE /\ \A f \in ValueFileNames : serr # valueFileError[f]
             /\ proc # Nil => ValuePaths(proc.args) = ExistingValuePaths(sreq)

\* C22 witness: helm runs with a missing values file ignored and a later
\* declared file passed
C22_Witness ==
    /\ sreq.strategy = "helm"
    /\ proc # Nil
    /\ sreq.ignoreMissing
    /\ Len(sreq.valueFiles) = 2
    /\ sreq.valueFiles[1] \notin sreq.existing
    /\ sreq.valueFiles[2] \in sreq.existing
    /\ Len(ValuePaths(proc.args)) = 1

HasArg(args, text) == \E i \in 1..Len(args) : args[i] = Arg(text)

SkipFlags == {Arg("--skip-crds"), Arg("--skip-tests")}

\* C24: the helm command line has --skip-crds exactly when the Helm bundle
\* or the request options set SkipCrds and the options do not set
\* IncludeCrds, and --skip-tests exactly when the options set SkipTests; nil
\* options count as all false and no other argument is removed.
C24_SkipOptions ==
    (sreq.strategy = "helm" /\ proc # Nil) =>
        LET o == sreq.opts
            optSkipCrds == o # Nil /\ o.SkipCrds
            optSkipTests == o # Nil /\ o.SkipTests
            optIncludeCrds == o # Nil /\ o.IncludeCrds
        IN /\ HasArg(proc.args, "--skip-crds") <=>
                 ((sreq.skipCrds \/ optSkipCrds) /\ ~optIncludeCrds)
           /\ HasArg(proc.args, "--skip-tests") <=> optSkipTests
           /\ SelectSeq(proc.args, LAMBDA a : a \notin SkipFlags) = helmBaseArgs(sreq)
           /\ Len(proc.args) <= Len(helmBaseArgs(sreq)) + 2

\* C24 witness: SkipCrds set by the bundle and taken back by IncludeCrds,
\* with --skip-tests kept
C24_Witness ==
    /\ sreq.strategy = "helm"
    /\ proc # Nil
    /\ sreq.skipCrds
    /\ sreq.opts # Nil
    /\ sreq.opts.IncludeCrds
    /\ sreq.opts.SkipTests
    /\ ~HasArg(proc.args, "--skip-crds")
    /\ HasArg(proc.args, "--skip-tests")

\* the characters of a string that are not whitespace
NonSpace(s) == SelectSeq(s, LAMBDA c : ~IsSpace(c))

RECURSIVE Flatten(_)
\* the words of a list written one after the other
Flatten(words) == IF words = <<>> THEN <<>> ELSE Head(words) \o Flatten(Tail(words))

\* the positions of a string where a word starts
WordStarts(s) == {i \in 1..Len(s) : ~IsSpace(s[i]) /\ (i = 1 \/ IsSpace(s[i - 1]))}

\* words is s split on whitespace: no word is empty or holds whitespace, the
\* words in order spell the non-blank characters of s, one word for each run
SplitOnWhitespace(words, s) ==
    /\ \A i \in 1..Len(words) :
          words[i] # <<>> /\ \A k \in 1..Len(words[i]) : ~IsSpace(words[i][k])
    /\ Flatten(words) = NonSpace(s)
    /\ Len(words) = Cardinality(WordStarts(s))

\* the caller's extra build flags
ExtraBuildFlags == IF sreq.opts = Nil THEN <<>> ELSE sreq.opts.BuildOptions

\* the Kustomize bundle is present and sets at least one option
BundleSetsAnOption == sreq.kustomize # Nil /\ sreq.kustomize # NoKustomizeOptions

\* C25: the Kustomize strategy runs kustomize build <path> followed by the
\* caller's build flags split on whitespace in their order; <path> is the
\* temporary overlay exactly when the Kustomize bundle is present and sets an
\* option, otherwise the source directory, and then no temporary directory
\* is created
C25_KustomizeInvocation ==
    sreq.strategy = "kustomize" =>
       /\ ~BundleSetsAnOption => OverlayDir \notin stemp
       /\ proc # Nil =>
            /\ proc.cmd = "kustomize build"
            /\ Len(proc.args) >= 2
            /\ proc.args[1] = Arg("build")
            /\ proc.args[2] = IF BundleSetsAnOption THEN PathArg(<<OverlayDir>>)
                              ELSE PathArg(Join(StrategyRepoPath, sreq.path))
            /\ BundleSetsAnOption => OverlayDir \in stemp
            /\ \A i \in 3..Len(proc.args) : "word" \in DOMAIN proc.args[i]
            /\ SplitOnWhitespace([i \in 1..(Len(proc.args) - 2) |-> proc.args[i + 2].word],
                                 ExtraBuildFlags)

\* C25 witness: kustomize build runs on the source directory with two build
\* flags that a tab separated, and no temporary directory exists
C25_Witness ==
    /\ sreq.strategy = "kustomize"
    /\ proc # Nil
    /\ sreq.kustomize = NoKustomizeOptions
    /\ sreq.path = <<"app">>
    /\ sreq.opts # Nil
    /\ sreq.opts.BuildOptions = <<"a", "\t", "b">>
    /\ Len(proc.args) = 4
    /\ stemp = {}

DigitValue ==
    [c \in {"0", "1", "2", "3", "4", "5", "6", "7", "8", "9"} |->
        CASE c = "0" -> 0 [] c = "1" -> 1 [] c = "2" -> 2 [] c = "3" -> 3
          [] c = "4" -> 4 [] c = "5" -> 5 [] c = "6" -> 6 [] c = "7" -> 7
          [] c = "8" -> 8 [] c = "9" -> 9]

\* the string is a decimal number
IsNumber(s) == s # <<>> /\ \A i \in 1..Len(s) : s[i] \in DOMAIN DigitValue

RECURSIVE NumericValue(_)
\* the numeric value of a decimal number
NumericValue(s) ==
    IF s = <<>> THEN 0
    ELSE 10 * NumericValue(SubSeq(s, 1, Len(s) - 1)) + DigitValue[s[Len(s)]]

\* C27: the replica count written into the overlay is the numeric value of
\* the declared count string, and an overlay is never written for a count
\* string that is not a number
C27_ReplicaCountWritten ==
    (sreq.strategy = "kustomize" /\ kustomization # Nil) =>
       \A i \in 1..Len(sreq.kustomize.Replicas) :
          LET declared == sreq.kustomize.Replicas[i].Count IN
          declared # <<>> =>
             /\ IsNumber(declared)
             /\ kustomization.Replicas[i].Count = NumericValue(declared)

\* the directory strategy descends into sub-directories
Recursing == sreq.directory = Nil \/ sreq.directory.Recurse

\* the entry is a file the directory strategy has to emit: a manifest by its
\* lower-cased extension, reached by the walk, matching the include pattern
\* and not the exclude pattern when they are set
ToEmit(entry) ==
    /\ ~entry.isDir
    /\ ToLower(Ext(entry.name)) \in {<<".", "yaml">>, <<".", "yml">>, <<".", "json">>}
    /\ entry.in = <<>> \/ Recursing
    /\ sreq.directory # Nil =>
          /\ sreq.directory.Include # <<>> =>
                Match(sreq.directory.Include, Rel(entry.in, entry.name))
          /\ sreq.directory.Exclude # <<>> =>
                ~Match(sreq.directory.Exclude, Rel(entry.in, entry.name))

RECURSIVE ExpectedOutput(_)
\* the files to emit among the first k entries, in walk order, with one
\* separator between consecutive files
ExpectedOutput(k) ==
    IF k = 0 THEN <<>>
    ELSE LET before == ExpectedOutput(k - 1) IN
         IF ToEmit(sreq.files[k])
         THEN before
              \o (IF before = <<>> THEN <<>> ELSE <<[kind |-> "separator", idx |-> 0]>>)
              \o <<[kind |-> "file", idx |-> k]>>
         ELSE before

\* the files of an output
FilesOf(out) == SelectSeq(out, LAMBDA line : line.kind = "file")

\* C30: the directory strategy emits exactly the manifest files under the
\* search path that the include and exclude patterns and the recurse switch
\* (on without a Directory bundle) select, in walk order with one separator
\* between consecutive files; a run that fails has emitted the files before
\* the entry it failed at and nothing after it
C30_DirectoryOutput ==
    (sreq.strategy = "directory" /\ spc = "returned") =>
       /\ serr = None => stdout = ExpectedOutput(Len(sreq.files))
       /\ serr # None => FilesOf(stdout) = FilesOf(ExpectedOutput(fileIdx))

\* C30 witness: a.yaml is excluded by *.yaml, b.YML and c.json are emitted
\* with one separator between them
C30_Witness ==
    /\ sreq.strategy = "directory"
    /\ spc = "returned"
    /\ serr = None
    /\ sreq.directory # Nil
    /\ sreq.directory.Exclude = <<"*", ".", "yaml">>
    /\ Len(sreq.files) = 3
    /\ sreq.files[1].name = <<"a", ".", "yaml">>
    /\ stdout = <<[kind |-> "file", idx |-> 2], [kind |-> "separator", idx |-> 0],
                  [kind |-> "file", idx |-> 3]>>

====
